---- MODULE Spec2Model ----
(***************************************************************************)
(* Procure4AI: multi-source procurement data intake, column reconciliation *)
(* (mergeAndPreview), phased rationalization (rationalize) and the session *)
(* state of the Home component of src/app/page.tsx.                        *)
(*                                                                         *)
(* Strings are TLA+ strings; a character is a string of length 1.          *)
(***************************************************************************)
EXTENDS Integers, Sequences, FiniteSets, TLC

(***************************************************************************)
(* Bounds of the model.                                                    *)
(***************************************************************************)
\* session specification: most source tables loaded or being read at one time
MaxLoaded == 1
\* session specification: most calls of rationalize whose timers are pending
MaxRuns == 2
\* intake specification: most source tables loaded or being read at one time
MaxIntake == 2
\* intake specification: most calls of ingestFiles that are pending
MaxPending == 2
\* intake specification: most files of one list
MaxBatch == 2
\* pipeline specification: most data rows of the generated source table
MaxRows == 2
\* merge specification: most files of the batch that is merged
MaxMerged == 2

(***************************************************************************)
(* JavaScript string primitives used by the code.                          *)
(***************************************************************************)
LowerAlpha == "abcdefghijklmnopqrstuvwxyz"
UpperAlpha == "ABCDEFGHIJKLMNOPQRSTUVWXYZ"

\* s.charAt(i - 1): positions are counted from 1 here; "" past the end
charAt(s, i) == IF i >= 1 /\ i <= Len(s) THEN SubSeq(s, i, i) ELSE ""

\* s.slice(i)
slice(s, i) == IF i >= Len(s) THEN "" ELSE SubSeq(s, i + 1, Len(s))

LowerChars == {charAt(LowerAlpha, i) : i \in 1..Len(LowerAlpha)}
UpperChars == {charAt(UpperAlpha, i) : i \in 1..Len(UpperAlpha)}

UpperOf == [ch \in LowerChars |->
              charAt(UpperAlpha, CHOOSE i \in 1..Len(LowerAlpha) : charAt(LowerAlpha, i) = ch)]
LowerOf == [ch \in UpperChars |->
              charAt(LowerAlpha, CHOOSE i \in 1..Len(UpperAlpha) : charAt(UpperAlpha, i) = ch)]

upperChar(ch) == IF ch \in LowerChars THEN UpperOf[ch] ELSE ch
lowerChar(ch) == IF ch \in UpperChars THEN LowerOf[ch] ELSE ch

RECURSIVE toUpperCase(_)
toUpperCase(s) ==
  IF s = "" THEN "" ELSE upperChar(charAt(s, 1)) \o toUpperCase(slice(s, 1))

RECURSIVE toLowerCase(_)
toLowerCase(s) ==
  IF s = "" THEN "" ELSE lowerChar(charAt(s, 1)) \o toLowerCase(slice(s, 1))

\* the white space characters of the model: space, tab (both match \s and trim)
isSpace(ch) == ch \in {" ", "\t"}

RECURSIVE trimStart(_)
trimStart(s) ==
  IF s # "" /\ isSpace(charAt(s, 1)) THEN trimStart(slice(s, 1)) ELSE s

RECURSIVE trimEnd(_)
trimEnd(s) ==
  IF s # "" /\ isSpace(charAt(s, Len(s))) THEN trimEnd(SubSeq(s, 1, Len(s) - 1)) ELSE s

trim(s) == trimEnd(trimStart(s))

\* s.replace(/\s+/g, " ")
RECURSIVE collapseSpaces(_)
collapseSpaces(s) ==
  IF s = "" THEN ""
  ELSE IF isSpace(charAt(s, 1)) THEN " " \o collapseSpaces(trimStart(s))
  ELSE charAt(s, 1) \o collapseSpaces(slice(s, 1))

\* s.split(sep) for a separator of one character, from position i on: done are
\* the pieces closed so far, current the piece being read
RECURSIVE splitFrom(_, _, _, _, _)
splitFrom(s, sep, i, done, current) ==
  IF i > Len(s) THEN Append(done, current)
  ELSE IF charAt(s, i) = sep THEN splitFrom(s, sep, i + 1, Append(done, current), "")
  ELSE splitFrom(s, sep, i + 1, done, current \o charAt(s, i))

split(s, sep) == splitFrom(s, sep, 1, <<>>, "")

\* parts.join(sep)
RECURSIVE join(_, _)
join(parts, sep) ==
  IF parts = <<>> THEN ""
  ELSE IF Len(parts) = 1 THEN parts[1]
  ELSE parts[1] \o sep \o join(Tail(parts), sep)

endsWith(s, suffix) ==
  /\ Len(s) >= Len(suffix)
  /\ SubSeq(s, Len(s) - Len(suffix) + 1, Len(s)) = suffix

\* the elements of seq at the indices i that satisfy keep(i), in order
SelectIdx(seq, keep(_)) ==
  LET idx == SelectSeq([i \in 1..Len(seq) |-> i], keep)
  IN  [k \in 1..Len(idx) |-> seq[idx[k]]]

RECURSIVE Sum(_)
Sum(seq) == IF seq = <<>> THEN 0 ELSE Head(seq) + Sum(Tail(seq))

RECURSIVE Flatten(_)
Flatten(seqs) == IF seqs = <<>> THEN <<>> ELSE Head(seqs) \o Flatten(Tail(seqs))

\* the distinct elements of seq in first-seen order (insertion order of a Set)
Distinct(seq) ==
  SelectIdx(seq, LAMBDA i : \A j \in 1..(i - 1) : seq[j] # seq[i])

(***************************************************************************)
(* The value abbreviation map and the normalization of one cell.           *)
(***************************************************************************)
VALUE_ABBREVIATIONS ==
  [k \in {"ea", "ea.", "EA", "pcs", "pcs.", "PCS", "pc", "nos", "nos."} |->
     IF k \in {"ea", "ea.", "EA"} THEN "Each"
     ELSE IF k \in {"pcs", "pcs.", "PCS", "pc"} THEN "Pieces"
     ELSE "Numbers"]

\* VALUE_ABBREVIATIONS is an object literal: a lookup by a name that
\* Object.prototype defines yields that inherited member, which is truthy and
\* is not a string (a function, or the prototype object for "__proto__").
ObjectPrototypeKeys ==
  {"constructor", "toString", "valueOf", "hasOwnProperty", "isPrototypeOf",
   "propertyIsEnumerable", "toLocaleString", "__proto__",
   "__defineGetter__", "__defineSetter__", "__lookupGetter__", "__lookupSetter__"}

\* VALUE_ABBREVIATIONS[c] is truthy
abbreviationFound(c) == c \in DOMAIN VALUE_ABBREVIATIONS \/ c \in ObjectPrototypeKeys

\* c.split(" ").map(w => w.charAt(0).toUpperCase() + w.slice(1).toLowerCase()).join(" ")
titleCase(c) ==
  LET ws == split(c, " ")
  IN  join([k \in 1..Len(ws) |->
              upperChar(charAt(ws[k], 1)) \o toLowerCase(slice(ws[k], 1))], " ")

\* needsCasing with the rule applied from length 3 on
needsCasingFrom3(c) == Len(c) >= 3 /\ (c = toUpperCase(c) \/ c = toLowerCase(c))

\* the test of the casing rule
needsCasing(c) == Len(c) > 3 /\ (c = toUpperCase(c) \/ c = toLowerCase(c))

\* The callback of row.map in the fourth timer: the normalized cell c, whether c
\* is still a string (isString), and what the cell adds to the three counters.
\* An inherited member has length at most 2 or none, so the casing rule skips it.
normalizeCell(cell) ==
  LET t  == trim(cell)
      c1 == collapseSpaces(t)
      c2 == IF c1 \in DOMAIN VALUE_ABBREVIATIONS THEN VALUE_ABBREVIATIONS[c1] ELSE c1
      isStr == ~(c1 \in ObjectPrototypeKeys)
      titled == titleCase(c2)
      fixCase == isStr /\ needsCasing(c2) /\ titled # c2
  IN  [c        |-> IF fixCase THEN titled ELSE c2,
       isString |-> isStr,
       ws       |-> IF t # cell THEN 1 ELSE 0,
       abbr     |-> IF abbreviationFound(c1) THEN 1 ELSE 0,
       casing   |-> IF fixCase THEN 1 ELSE 0]

\* const normalized = mergedRows.map(row => row.map(cell => ...))
normalizedCells(rows) ==
  [i \in 1..Len(rows) |-> [j \in 1..Len(rows[i]) |-> normalizeCell(rows[i][j])]]

\* rowKey with the cells joined as they are, not lower-cased
rowKeyExact(row) == join(row, "|")

\* row.map(c => c.toLowerCase()).join("|")
rowKey(row) == join([j \in 1..Len(row) |-> toLowerCase(row[j])], "|")

\* dedupe with the last row of each key kept
dedupeKeepsLast(rows) ==
  SelectIdx(rows, LAMBDA i : \A j \in (i + 1)..Len(rows) : rowKey(rows[j]) # rowKey(rows[i]))

\* the forEach over normalized: the first row of each key is kept
dedupe(rows) ==
  SelectIdx(rows, LAMBDA i : \A j \in 1..(i - 1) : rowKey(rows[j]) # rowKey(rows[i]))

\* dropEmptyRows without the filter
keepEmptyRows(rows) == rows

\* deduped.filter(r => r.some(c => c !== ""))
dropEmptyRows(rows) ==
  SelectSeq(rows, LAMBDA r : \E j \in 1..Len(r) : r[j] # "")

\* normalized, as strings (when every cell is still a string)
normalizedRows(rows) ==
  LET cells == normalizedCells(rows)
  IN  [i \in 1..Len(cells) |-> [j \in 1..Len(cells[i]) |-> cells[i][j].c]]

\* dupsRemoved without the rows dropped as empty
dupsRemovedNoEmpty(normalized, deduped, cleaned) == Len(normalized) - Len(deduped)

\* dupsRemoved: one for each row the forEach skips, then
\* dupsRemoved += deduped.length - cleaned.length
dupsRemoved(normalized, deduped, cleaned) ==
  (Len(normalized) - Len(deduped)) + (Len(deduped) - Len(cleaned))

\* The computation of the fourth timer callback on the merged rows it captured.
\* threw: c.toLowerCase() is called on a cell that is not a string, the callback
\* ends with a TypeError before any state is set.
rationalizeRows(rows) ==
  LET flat    == Flatten(normalizedCells(rows))
      bad     == \E k \in 1..Len(flat) : ~flat[k].isString
      normalized == normalizedRows(rows)
      deduped == dedupe(normalized)
      cleaned == dropEmptyRows(deduped)
  IN  [threw   |-> bad,
       rows    |-> IF bad THEN <<>> ELSE cleaned,
       duplicatesRemoved  |-> dupsRemoved(normalized, deduped, cleaned),
       abbreviationsFixed |-> Sum([k \in 1..Len(flat) |-> flat[k].abbr]),
       casingFixed        |-> Sum([k \in 1..Len(flat) |-> flat[k].casing]),
       whitespaceFixed    |-> Sum([k \in 1..Len(flat) |-> flat[k].ws])]

(***************************************************************************)
(* File parsing (ingestFiles).                                             *)
(***************************************************************************)
\* The loop of parseCSVLine from position i on: result are the fields pushed so
\* far, current the field being read.
RECURSIVE parseCSVFrom(_, _, _, _, _)
parseCSVFrom(line, i, result, current, inQuotes) ==
  IF i > Len(line) THEN Append(result, trim(current))
  ELSE LET ch == charAt(line, i)
       IN  IF ch = "\"" THEN parseCSVFrom(line, i + 1, result, current, ~inQuotes)
           ELSE IF ch = "," /\ ~inQuotes
             THEN parseCSVFrom(line, i + 1, Append(result, trim(current)), "", inQuotes)
           ELSE parseCSVFrom(line, i + 1, result, current \o ch, inQuotes)

parseCSVLine(line) == parseCSVFrom(line, 1, <<>>, "", FALSE)

\* file.name.endsWith(".csv")
isCSV(name) == endsWith(name, ".csv")

\* /\.xlsx?$/i.test(file.name)
isExcel(name) ==
  LET n == toLowerCase(name) IN endsWith(n, ".xlsx") \/ endsWith(n, ".xls")

\* The body of the try block for one file: the tables it pushes to parsed (none
\* or one).  A file is [name, text, raw, fails]: text is what file.text() gives,
\* raw what sheet_to_json gives for the first sheet (a missing cell is ""),
\* fails says that reading or decoding the file throws, which the catch logs.
parseFile(file) ==
  IF isCSV(file.name) THEN
    IF file.fails THEN <<>>
    ELSE LET lines == SelectSeq(split(file.text, "\n"), LAMBDA l : trim(l) # "")
         IN  IF Len(lines) > 0
               THEN <<[fileName |-> file.name,
                       headers  |-> parseCSVLine(lines[1]),
                       rows     |-> [k \in 1..(Len(lines) - 1) |-> parseCSVLine(lines[k + 1])]]>>
               ELSE <<>>
  ELSE IF isExcel(file.name) THEN
    IF file.fails THEN <<>>
    ELSE IF Len(file.raw) > 0
      THEN LET headers == [j \in 1..Len(file.raw[1]) |-> trim(file.raw[1][j])]
               body    == SelectSeq(Tail(file.raw),
                            LAMBDA r : \E j \in 1..Len(r) : trim(r[j]) # "")
           IN  <<[fileName |-> file.name,
                  headers  |-> headers,
                  rows     |-> [k \in 1..Len(body) |->
                                 [j \in 1..Len(headers) |->
                                    IF j <= Len(body[k]) THEN trim(body[k][j]) ELSE ""]]]>>
      ELSE <<>>
  ELSE <<>>

\* parseBatch with the try block around the whole loop: the first file that
\* throws ends it
parseBatchStopsAtFailure(list) ==
  LET upTo == IF \E k \in 1..Len(list) : list[k].fails
                THEN (CHOOSE k \in 1..Len(list) :
                        list[k].fails /\ \A j \in 1..(k - 1) : ~list[j].fails) - 1
                ELSE Len(list)
  IN  Flatten([k \in 1..upTo |-> parseFile(list[k])])

\* parsed, after the for loop over the batch
parseBatch(list) == Flatten([k \in 1..Len(list) |-> parseFile(list[k])])

(***************************************************************************)
(* Column mapping and merge (mergeAndPreview).                             *)
(***************************************************************************)
COLUMN_SYNONYMS ==
  <<[standard |-> "Part Number",
     synonyms |-> <<"part number", "p/n", "pn", "item code", "item id", "sku",
                    "part no", "part no.">>],
    [standard |-> "Description",
     synonyms |-> <<"description", "desc", "desc.", "part desc", "part description",
                    "item description", "name", "item name">>],
    [standard |-> "Quantity",
     synonyms |-> <<"quantity", "qty", "qty.", "units", "count", "amount">>],
    [standard |-> "Unit of Measure",
     synonyms |-> <<"unit of measure", "uom", "unit">>],
    [standard |-> "Unit Price",
     synonyms |-> <<"unit price", "price", "cost per unit", "cost", "rate",
                    "estimated cost", "price per unit">>],
    [standard |-> "Supplier",
     synonyms |-> <<"supplier", "vendor", "mfg", "mfg.", "mfr", "mfr.",
                    "manufacturer", "source">>]>>

Range(seq) == {seq[i] : i \in 1..Len(seq)}

\* synonymLookup: the Map built from COLUMN_SYNONYMS, a later set of the same
\* synonym replacing an earlier one
synonymMap ==
  [s \in UNION {Range(COLUMN_SYNONYMS[e].synonyms) : e \in 1..Len(COLUMN_SYNONYMS)} |->
     LET hits == {e \in 1..Len(COLUMN_SYNONYMS) : s \in Range(COLUMN_SYNONYMS[e].synonyms)}
     IN  COLUMN_SYNONYMS[CHOOSE e \in hits : \A d \in hits : d <= e].standard]

\* synonymLookup.get(key); "" stands for undefined (both are falsy, and no
\* standard name is empty)
synonymLookup(key) == IF key \in DOMAIN synonymMap THEN synonymMap[key] ELSE ""

\* headerKey without toLowerCase
headerKeyNoLower(src) == trim(src)

\* src.toLowerCase().trim()
headerKey(src) == trim(toLowerCase(src))

\* key.split(" ").map(w => w.charAt(0).toUpperCase() + w.slice(1)).join(" ")
passthrough(key) ==
  LET ws == split(key, " ")
  IN  join([k \in 1..Len(ws) |-> upperChar(charAt(ws[k], 1)) \o slice(ws[k], 1)], " ")

\* the value colMapping holds for a key: the standard name, or the passthrough
colMappingOf(key) ==
  LET standard == synonymLookup(key)
  IN  IF standard # "" THEN standard ELSE passthrough(key)

\* allSourceCols, in insertion order
allSourceCols(fs) == Distinct(Flatten([k \in 1..Len(fs) |-> fs[k].headers]))

\* what each source column of srcs maps to
mappedNames(srcs) == [k \in 1..Len(srcs) |-> colMappingOf(headerKey(srcs[k]))]

\* standardCols with a column pushed for every header of every file
standardColsEveryHeader(fs) == mappedNames(Flatten([k \in 1..Len(fs) |-> fs[k].headers]))

\* standardCols with the columns of the registry before the passthrough columns
standardColsRegistryFirst(fs) ==
  LET names == Distinct(mappedNames(allSourceCols(fs)))
      known == {COLUMN_SYNONYMS[e].standard : e \in 1..Len(COLUMN_SYNONYMS)}
  IN  SelectSeq(names, LAMBDA n : n \in known) \o SelectSeq(names, LAMBDA n : n \notin known)

\* standardCols after the loop over allSourceCols
standardCols(fs) == Distinct(mappedNames(allSourceCols(fs)))

\* columnMappings, built from mappingTracker
columnMappings(fs) ==
  LET srcs  == allSourceCols(fs)
      names == mappedNames(srcs)
      cols  == Distinct(names)
  IN  [k \in 1..Len(cols) |->
         [target  |-> cols[k],
          sources |-> SelectIdx(srcs, LAMBDA i : names[i] = cols[k])]]

\* standardCols.indexOf(standard), counted from 1; 0 when absent
indexOf(cols, standard) ==
  IF \E k \in 1..Len(cols) : cols[k] = standard
    THEN CHOOSE k \in 1..Len(cols) :
           cols[k] = standard /\ \A j \in 1..(k - 1) : cols[j] # standard
    ELSE 0

\* headerMap.get(i) for the header h at position i; 0 stands for undefined:
\* an empty standard name is falsy and sets nothing
headerMapOf(cols, h) ==
  LET standard == colMappingOf(headerKey(h))
  IN  IF standard # "" THEN indexOf(cols, standard) ELSE 0

\* headerMap of file f, as a sequence over the header positions
headerMap(cols, f) == [i \in 1..Len(f.headers) |-> headerMapOf(cols, f.headers[i])]

\* mergeRow with one cell per cell of the source row
mergeRowByPosition(cols, hm, row) ==
  [k \in 1..Len(row) |->
     LET from == {i \in 1..Len(row) : i <= Len(hm) /\ hm[i] = k}
     IN  IF from = {} THEN "" ELSE row[CHOOSE i \in from : \A j \in from : j <= i]]

\* merged, for one row of a file with header map hm: filled with "", then each
\* cell written at the index its position maps to, a later cell over an earlier
mergeRow(cols, hm, row) ==
  [k \in 1..Len(cols) |->
     LET from == {i \in 1..Len(row) : i <= Len(hm) /\ hm[i] = k}
     IN  IF from = {} THEN "" ELSE row[CHOOSE i \in from : \A j \in from : j <= i]]

\* the rows one file adds
mergeFile(cols, f) ==
  LET hm == headerMap(cols, f)
  IN  [r \in 1..Len(f.rows) |-> mergeRow(cols, hm, f.rows[r])]

\* mergeRows with the files taken last to first
mergeRowsLastFirst(fs) ==
  LET cols == standardCols(fs)
  IN  Flatten([k \in 1..Len(fs) |-> mergeFile(cols, fs[Len(fs) + 1 - k])])

\* rows, after the forEach over files
mergeRows(fs) ==
  LET cols == standardCols(fs)
  IN  Flatten([k \in 1..Len(fs) |-> mergeFile(cols, fs[k])])

(***************************************************************************)
(* The state of the Home component.                                        *)
(***************************************************************************)
VARIABLES
  step,           \* useState<Step>
  files,          \* useState<FileData[]>
  mergedHeaders,  \* useState<string[]>
  mergedRows,     \* useState<string[][]>
  rationHeaders,  \* useState<string[]>
  rationRows,     \* useState<string[][]>
  phase,          \* useState<Phase>
  stats,          \* useState<DetailedStats>
  reading,        \* the calls of ingestFiles that have not reached setFiles yet:
                  \* for each, the tables it will append
  timers          \* the calls of rationalize whose timers are still pending, oldest
                  \* first: the number of the next timer and the mergedRows and
                  \* mergedHeaders its callbacks closed over

vars == <<step, files, mergedHeaders, mergedRows, rationHeaders, rationRows,
          phase, stats, reading, timers>>

STEPS == <<"upload", "preview", "rationalize", "export">>

\* STEPS.findIndex(s => s.key === step), counted from 1
stepIdx == CHOOSE i \in 1..Len(STEPS) : STEPS[i] = step

\* the phase each of the first three timers sets
PHASE_OF_TIMER == <<"mapping", "deduplicating", "normalizing">>

emptyStats ==
  [totalFiles |-> 0, totalSourceRows |-> 0, columnMappings |-> <<>>,
   sourceColumns |-> 0, outputColumns |-> 0, duplicatesRemoved |-> 0,
   abbreviationsFixed |-> 0, casingFixed |-> 0, whitespaceFixed |-> 0,
   outputRows |-> 0]

Init ==
  /\ step = "upload"
  /\ files = <<>>
  /\ mergedHeaders = <<>>
  /\ mergedRows = <<>>
  /\ rationHeaders = <<>>
  /\ rationRows = <<>>
  /\ phase = "idle"
  /\ stats = emptyStats
  /\ reading = <<>>
  /\ timers = <<>>

RemoveAt(seq, i) == SubSeq(seq, 1, i - 1) \o SubSeq(seq, i + 1, Len(seq))

(***************************************************************************)
(* Intake.                                                                 *)
(***************************************************************************)
\* ingestFiles(list), up to its last await, where call is the list with what the
\* loop parses from it, [list, parsed] with parsed = parseBatch(list): the drop
\* zone and the file input exist only in the upload step.  The files are
\* decoded one after the other; nothing of the state is read or set before
\* setFiles.
ingestFiles(call) ==
  /\ step = "upload"
  /\ reading' = Append(reading, call)
  /\ UNCHANGED <<step, files, mergedHeaders, mergedRows, rationHeaders, rationRows,
                 phase, stats, timers>>

\* ingestDone with the parsed tables put in front: [...parsed, ...prev]
ingestDoneInFront(k) ==
  /\ k \in 1..Len(reading)
  /\ files' = reading[k].parsed \o files
  /\ reading' = RemoveAt(reading, k)
  /\ UNCHANGED <<step, mergedHeaders, mergedRows, rationHeaders, rationRows,
                 phase, stats, timers>>

\* setFiles(prev => [...prev, ...parsed]) of the k-th pending call
ingestDone(k) ==
  /\ k \in 1..Len(reading)
  /\ files' = files \o reading[k].parsed
  /\ reading' = RemoveAt(reading, k)
  /\ UNCHANGED <<step, mergedHeaders, mergedRows, rationHeaders, rationRows,
                 phase, stats, timers>>

\* the remove button of a loaded source: setFiles(prev => prev.filter((_, j) => j !== i))
removeFile(i) ==
  /\ step = "upload"
  /\ i \in 1..Len(files)
  /\ files' = RemoveAt(files, i)
  /\ UNCHANGED <<step, mergedHeaders, mergedRows, rationHeaders, rationRows,
                 phase, stats, reading, timers>>

(***************************************************************************)
(* Consolidation.                                                          *)
(***************************************************************************)
\* mergeAndPreview with the button enabled while files is empty
mergeAndPreviewAnyFiles ==
  /\ step = "upload"
  /\ LET cols == standardCols(files)
         rows == mergeRows(files)
     IN  /\ mergedHeaders' = cols
         /\ mergedRows' = rows
         /\ stats' = [stats EXCEPT !.totalFiles = Len(files),
                                   !.totalSourceRows = Len(rows),
                                   !.sourceColumns = Len(allSourceCols(files)),
                                   !.outputColumns = Len(cols),
                                   !.columnMappings = columnMappings(files)]
  /\ step' = "preview"
  /\ UNCHANGED <<files, rationHeaders, rationRows, phase, reading, timers>>

\* the button is rendered in the upload step and disabled while files is empty
mergeAndPreview ==
  /\ step = "upload"
  /\ Len(files) # 0
  /\ LET cols == standardCols(files)
         rows == mergeRows(files)
     IN  /\ mergedHeaders' = cols
         /\ mergedRows' = rows
         /\ stats' = [stats EXCEPT !.totalFiles = Len(files),
                                   !.totalSourceRows = Len(rows),
                                   !.sourceColumns = Len(allSourceCols(files)),
                                   !.outputColumns = Len(cols),
                                   !.columnMappings = columnMappings(files)]
  /\ step' = "preview"
  /\ UNCHANGED <<files, rationHeaders, rationRows, phase, reading, timers>>

\* backToUpload with the merged table discarded
backToUploadClears ==
  /\ step = "preview"
  /\ step' = "upload"
  /\ mergedHeaders' = <<>>
  /\ mergedRows' = <<>>
  /\ UNCHANGED <<files, rationHeaders, rationRows, phase, stats, reading, timers>>

\* the Back button of the preview step
backToUpload ==
  /\ step = "preview"
  /\ step' = "upload"
  /\ UNCHANGED <<files, mergedHeaders, mergedRows, rationHeaders, rationRows,
                 phase, stats, reading, timers>>

(***************************************************************************)
(* Rationalization.                                                        *)
(***************************************************************************)
\* rationalize(): the button of the preview step.  The four setTimeout calls
\* close over the mergedRows and mergedHeaders of this render.
rationalize ==
  /\ step = "preview"
  /\ step' = "rationalize"
  /\ phase' = "analyzing"
  /\ timers' = Append(timers, [next |-> 1, rows |-> mergedRows, headers |-> mergedHeaders])
  /\ UNCHANGED <<files, mergedHeaders, mergedRows, rationHeaders, rationRows,
                 stats, reading>>

\* Timers of equal delay fire in the order they were set: the n-th timer of a
\* call fires after the n-th timer of every earlier call.
mayFire(r) ==
  /\ r \in 1..Len(timers)
  /\ \A o \in 1..(r - 1) : timers[o].next > timers[r].next

\* one of the first three timers of the r-th pending call (700, 1600, 2500 ms)
phaseTimer(r) ==
  /\ mayFire(r)
  /\ timers[r].next <= 3
  /\ phase' = PHASE_OF_TIMER[timers[r].next]
  /\ timers' = [timers EXCEPT ![r].next = @ + 1]
  /\ UNCHANGED <<step, files, mergedHeaders, mergedRows, rationHeaders, rationRows,
                 stats, reading>>

\* the fourth timer (3400 ms) of the r-th pending call, when no cell makes it throw
finalizeTimer(r) ==
  /\ mayFire(r)
  /\ timers[r].next = 4
  /\ LET res == rationalizeRows(timers[r].rows)
     IN  /\ ~res.threw
         /\ rationHeaders' = timers[r].headers
         /\ rationRows' = res.rows
         /\ stats' = [stats EXCEPT !.duplicatesRemoved = res.duplicatesRemoved,
                                   !.abbreviationsFixed = res.abbreviationsFixed,
                                   !.casingFixed = res.casingFixed,
                                   !.whitespaceFixed = res.whitespaceFixed,
                                   !.outputRows = Len(res.rows)]
         /\ phase' = "done"
  /\ timers' = RemoveAt(timers, r)
  /\ UNCHANGED <<step, files, mergedHeaders, mergedRows, reading>>

\* the fourth timer when c.toLowerCase() throws: no state is set
finalizeThrows(r) ==
  /\ mayFire(r)
  /\ timers[r].next = 4
  /\ rationalizeRows(timers[r].rows).threw
  /\ timers' = RemoveAt(timers, r)
  /\ UNCHANGED <<step, files, mergedHeaders, mergedRows, rationHeaders, rationRows,
                 phase, stats, reading>>

\* the Back button of the results (rendered when phase is done)
backToPreview ==
  /\ step = "rationalize"
  /\ phase = "done"
  /\ step' = "preview"
  /\ UNCHANGED <<files, mergedHeaders, mergedRows, rationHeaders, rationRows,
                 phase, stats, reading, timers>>

\* toExport with the button rendered in every phase
toExportAnyPhase ==
  /\ step = "rationalize"
  /\ step' = "export"
  /\ UNCHANGED <<files, mergedHeaders, mergedRows, rationHeaders, rationRows,
                 phase, stats, reading, timers>>

\* the Export button of the results (rendered when phase is done)
toExport ==
  /\ step = "rationalize"
  /\ phase = "done"
  /\ step' = "export"
  /\ UNCHANGED <<files, mergedHeaders, mergedRows, rationHeaders, rationRows,
                 phase, stats, reading, timers>>

\* a button of the stepper: enabled for the steps before the current one
stepperTo(i) ==
  /\ i \in 1..Len(STEPS)
  /\ i < stepIdx
  /\ step' = STEPS[i]
  /\ UNCHANGED <<files, mergedHeaders, mergedRows, rationHeaders, rationRows,
                 phase, stats, reading, timers>>

\* reset without setPhase("idle")
resetKeepsPhase ==
  /\ step = "export"
  /\ files' = <<>>
  /\ mergedHeaders' = <<>>
  /\ mergedRows' = <<>>
  /\ rationHeaders' = <<>>
  /\ rationRows' = <<>>
  /\ stats' = emptyStats
  /\ step' = "upload"
  /\ UNCHANGED <<phase, reading, timers>>

\* reset(): "Start over with new files", rendered in the export step
reset ==
  /\ step = "export"
  /\ files' = <<>>
  /\ mergedHeaders' = <<>>
  /\ mergedRows' = <<>>
  /\ rationHeaders' = <<>>
  /\ rationRows' = <<>>
  /\ phase' = "idle"
  /\ stats' = emptyStats
  /\ step' = "upload"
  /\ UNCHANGED <<reading, timers>>

(***************************************************************************)
(* The session: every action of the component, on the files of a catalog.  *)
(***************************************************************************)
\* a CSV file: a row longer than the header list, an empty row, a short row
CsvA ==
  [name |-> "a.csv", fails |-> FALSE, raw |-> <<>>,
   text |-> "Qty,Desc\n5,Widget,spare\n,\n\n7"]

\* a spreadsheet with other names for the same columns
XlsxB ==
  [name |-> "b.xlsx", fails |-> FALSE, text |-> "",
   raw |-> <<<<"qty.", "description">>, <<"5", "WIDGET">>, <<"", " ">>, <<"ea", "5">>>>]

\* a spreadsheet whose decoding throws
Corrupt == [name |-> "c.xls", fails |-> TRUE, text |-> "", raw |-> <<>>]

\* a file of an extension that is not handled
Unsupported == [name |-> "d.txt", fails |-> FALSE, text |-> "Qty\n1", raw |-> <<>>]

\* a CSV file with a cell that names a member of Object.prototype
CsvT == [name |-> "t.csv", fails |-> FALSE, raw |-> <<>>, text |-> "Desc\ntoString"]

Catalog == {CsvA, XlsxB, CsvT, Corrupt, Unsupported}

\* the file lists dropped or chosen at once: each file that yields a table on
\* its own, the two that yield none together
Batches ==
  {<<f>> : f \in Catalog \ {Corrupt, Unsupported}} \cup {<<Corrupt, Unsupported>>}

\* the calls of ingestFiles: each list with what is parsed from it
callsOf(lists) == {[list |-> list, parsed |-> parseBatch(list)] : list \in lists}

ParsedBatches == callsOf(Batches)

\* the tables that are being read
pendingTables == Flatten([k \in 1..Len(reading) |-> reading[k].parsed])

\* the tables loaded and being read stay within MaxLoaded
roomFor(call) ==
  /\ Len(reading) < MaxLoaded
  /\ Len(files) + Len(pendingTables) + Len(call.parsed) <= MaxLoaded

Next ==
  \/ \E call \in ParsedBatches : roomFor(call) /\ ingestFiles(call)
  \/ \E k \in 1..Len(reading) : ingestDone(k)
  \/ \E i \in 1..Len(files) : removeFile(i)
  \/ mergeAndPreview
  \/ backToUpload
  \/ Len(timers) < MaxRuns /\ rationalize
  \/ \E r \in 1..Len(timers) : phaseTimer(r)
  \/ \E r \in 1..Len(timers) : finalizeTimer(r)
  \/ \E r \in 1..Len(timers) : finalizeThrows(r)
  \/ backToPreview
  \/ toExport
  \/ \E i \in 1..Len(STEPS) : stepperTo(i)
  \/ reset

Spec == Init /\ [][Next]_vars

(***************************************************************************)
(* The pipeline: one generated CSV file is loaded, merged and rationalized *)
(* once.                                                                   *)
(***************************************************************************)
\* the cells of the first column, as the file holds them
GenCells ==
  {"", " ea.", "EACH", "ab", "AB", "__PROTO__", "toString", "|", "a \t b",
   "1234", "Blue pen", "blue pen"}

\* the cells of the second column
GenMarks == {"", "|"}

GenRows == {<<a, b>> : a \in GenCells, b \in GenMarks}

RECURSIVE SeqsUpTo(_, _)
SeqsUpTo(S, n) ==
  IF n = 0 THEN {<<>>}
  ELSE LET shorter == SeqsUpTo(S, n - 1)
       IN  shorter \cup {Append(q, x) : q \in {p \in shorter : Len(p) = n - 1}, x \in S}

\* the text of a CSV file with these headers and rows
csvText(headers, rows) ==
  join(<<join(headers, ",")>> \o [k \in 1..Len(rows) |-> join(rows[k], ",")], "\n")

GenFiles ==
  {[name |-> "gen.csv", fails |-> FALSE, raw |-> <<>>,
    text |-> csvText(<<"Item", "Note">>, rows)] : rows \in SeqsUpTo(GenRows, MaxRows)}

ParsedGen == callsOf({<<f>> : f \in GenFiles})

PipelineNext ==
  \/ \E call \in ParsedGen : files = <<>> /\ reading = <<>> /\ ingestFiles(call)
  \/ \E k \in 1..Len(reading) : ingestDone(k)
  \/ mergeAndPreview
  \/ timers = <<>> /\ rationalize
  \/ \E r \in 1..Len(timers) : phaseTimer(r)
  \/ \E r \in 1..Len(timers) : finalizeTimer(r)
  \/ \E r \in 1..Len(timers) : finalizeThrows(r)

PipelineSpec == Init /\ [][PipelineNext]_vars

(***************************************************************************)
(* The merge: one batch of files with different header vocabularies is     *)
(* loaded, merged and rationalized once.                                   *)
(***************************************************************************)
MergeA ==
  [name |-> "a.csv", fails |-> FALSE, raw |-> <<>>,
   text |-> "Part Number,Qty,Desc\n100,5,Widget"]

MergeB ==
  [name |-> "b.XLSX", fails |-> FALSE, text |-> "",
   raw |-> <<<<" P/N", "qty.", " DESCRIPTION ">>, <<"100", "5", "WIDGET">>>>]

MergeC ==
  [name |-> "c.csv", fails |-> FALSE, raw |-> <<>>,
   text |-> "pn,QTY,desc.\n100,pc,widget"]

MergeD ==
  [name |-> "d.csv", fails |-> FALSE, raw |-> <<>>,
   text |-> "PN,Units,Name\n100,PC,Widget"]

\* a column that is no synonym, a header with two spaces, an empty header, a
\* row longer than the header list and a shorter one
MergeE ==
  [name |-> "e.csv", fails |-> FALSE, raw |-> <<>>,
   text |-> "sku,Colour,lead  time,\n100,red,3d,x,spare\n7"]

\* a sheet whose first row is empty: no headers
MergeF ==
  [name |-> "f.xls", fails |-> FALSE, text |-> "", raw |-> <<<<>>, <<"1">>>>]

MergeCatalog == {MergeA, MergeB, MergeC, MergeD, MergeE, MergeF}

ParsedMerge == callsOf(SeqsUpTo(MergeCatalog, MaxMerged))

MergeNext ==
  \/ \E call \in ParsedMerge : files = <<>> /\ reading = <<>> /\ ingestFiles(call)
  \/ \E k \in 1..Len(reading) : ingestDone(k)
  \/ mergeAndPreview
  \/ timers = <<>> /\ rationalize
  \/ \E r \in 1..Len(timers) : phaseTimer(r)
  \/ \E r \in 1..Len(timers) : finalizeTimer(r)

MergeSpec == Init /\ [][MergeNext]_vars

(***************************************************************************)
(* The intake: lists of files, some of which cannot be read, are loaded    *)
(* while others are still being read; files are removed, the loaded files  *)
(* are merged and the upload step is shown again.                          *)
(***************************************************************************)
InCsv == [name |-> "p.csv", fails |-> FALSE, raw |-> <<>>, text |-> "A\n1"]

InXls == [name |-> "q.XLS", fails |-> FALSE, text |-> "", raw |-> <<<<"B">>, <<"2">>>>]

IntakeCatalog == {InCsv, InXls, Corrupt, Unsupported}

IntakeCalls == callsOf(SeqsUpTo(IntakeCatalog, MaxBatch))

IntakeNext ==
  \/ \E call \in IntakeCalls :
       /\ Len(reading) < MaxPending
       /\ Len(files) + Len(pendingTables) + Len(call.parsed) <= MaxIntake
       /\ ingestFiles(call)
  \/ \E k \in 1..Len(reading) : ingestDone(k)
  \/ \E i \in 1..Len(files) : removeFile(i)
  \/ mergeAndPreview
  \/ backToUpload

IntakeSpec == Init /\ [][IntakeNext]_vars

(***************************************************************************)
(* Properties of the rationalization (PipelineSpec).                       *)
(***************************************************************************)
\* two rows equal cell by cell after lower-casing
CIEqual(r1, r2) ==
  /\ Len(r1) = Len(r2)
  /\ \A j \in 1..Len(r1) : toLowerCase(r1[j]) = toLowerCase(r2[j])

\* every cell of the row is the empty string
AllEmpty(r) == \A j \in 1..Len(r) : r[j] = ""

\* C1: the computation of rationalize, applied to the table it produced,
\* returns that table unchanged and counts no whitespace, abbreviation or
\* casing fix and no removed row.
C1_Idempotent ==
  phase = "done" =>
    LET again == rationalizeRows(rationRows)
    IN  /\ ~again.threw
        /\ again.rows = rationRows
        /\ again.whitespaceFixed = 0
        /\ again.abbreviationsFixed = 0
        /\ again.casingFixed = 0
        /\ again.duplicatesRemoved = 0

\* C2: once a rationalization has produced its table, outputRows plus
\* duplicatesRemoved is the number of rows of the merged table it ran on, and
\* outputRows is the number of rows of the rationalized table.
C2_RowConservation ==
  phase = "done" =>
    /\ stats.outputRows + stats.duplicatesRemoved = Len(mergedRows)
    /\ stats.outputRows = Len(rationRows)

\* a run has dropped a row and kept another
C2_Witness ==
  /\ phase = "done"
  /\ stats.duplicatesRemoved > 0
  /\ stats.outputRows > 0

\* C3: deduplication removes a row of the normalized table exactly when an
\* earlier row equals it cell by cell after lower-casing: the rationalized table
\* is the normalized table without those rows and without the all-empty rows.
C3_DedupBothWays ==
  phase = "done" =>
    LET n == normalizedRows(mergedRows)
    IN  rationRows =
          SelectIdx(n, LAMBDA i : /\ \A j \in 1..(i - 1) : ~CIEqual(n[j], n[i])
                                  /\ ~AllEmpty(n[i]))

\* C4: no two rows of the rationalized table are equal under case-insensitive
\* comparison of all their cells.
C4_NoDuplicateRows ==
  \A i \in 1..Len(rationRows) : \A j \in 1..Len(rationRows) :
    i # j => ~CIEqual(rationRows[i], rationRows[j])

\* the merged table held two rows that differ only in letter case, and the run
\* kept a row
C4_Witness ==
  /\ phase = "done"
  /\ rationRows # <<>>
  /\ \E i \in 1..Len(mergedRows) : \E j \in 1..Len(mergedRows) :
       /\ i < j
       /\ mergedRows[i] # mergedRows[j]
       /\ CIEqual(normalizedRows(mergedRows)[i], normalizedRows(mergedRows)[j])

\* C5: no row of the rationalized table consists only of empty strings.
C5_NoEmptyRow ==
  \A i \in 1..Len(rationRows) : ~AllEmpty(rationRows[i])

\* the merged table held an all-empty row next to one that is not, and the run
\* is done
C5_Witness ==
  /\ phase = "done"
  /\ rationRows # <<>>
  /\ \E i \in 1..Len(mergedRows) : AllEmpty(mergedRows[i])

(***************************************************************************)
(* Properties of the merge (MergeSpec).                                    *)
(***************************************************************************)
\* the canonical name a raw header stands for: the standard name of the entry
\* that lists its trimmed, lower-cased form, "" when no entry does
canonicalOf(h) ==
  LET key  == trim(toLowerCase(h))
      hits == {e \in 1..Len(COLUMN_SYNONYMS) : key \in Range(COLUMN_SYNONYMS[e].synonyms)}
  IN  IF hits = {} THEN "" ELSE COLUMN_SYNONYMS[CHOOSE e \in hits : TRUE].standard

\* the headers of the table are aliases of Part Number, Quantity, Description
PartQtyDesc(f) ==
  [k \in 1..Len(f.headers) |-> canonicalOf(f.headers[k])]
    = <<"Part Number", "Quantity", "Description">>

\* the rows of all loaded tables, in the order of the tables
sourceRows == Flatten([k \in 1..Len(files) |-> files[k].rows])

\* C6: two tables under different aliases of Part Number, Quantity and
\* Description, whose rows are equal up to letter case, merge into one table of
\* these three columns with one row per source row, and rationalizing leaves
\* exactly the normalized first row, duplicatesRemoved counting the others.
C6_EndToEnd ==
  ( /\ Len(files) = 2
    /\ PartQtyDesc(files[1]) /\ PartQtyDesc(files[2])
    /\ files[1].headers # files[2].headers
    /\ sourceRows # <<>>
    /\ \A i \in 1..Len(sourceRows) : CIEqual(sourceRows[1], sourceRows[i]) )
  => /\ step # "upload" =>
          /\ mergedHeaders = <<"Part Number", "Quantity", "Description">>
          /\ Len(mergedRows) = Len(sourceRows)
     /\ phase = "done" =>
          /\ rationRows = <<normalizedRows(<<files[1].rows[1]>>)[1]>>
          /\ stats.duplicatesRemoved = Len(sourceRows) - 1

\* the rows file k adds to the merged table start after this many rows
rowsBefore(k) == Sum([m \in 1..(k - 1) |-> Len(files[m].rows)])

\* the source row at position r of file k supplies a value for merged column c
supplies(k, r, c) ==
  \E i \in 1..Len(files[k].rows[r]) :
    /\ i <= Len(files[k].headers)
    /\ colMappingOf(trim(toLowerCase(files[k].headers[i]))) = mergedHeaders[c]

\* C7: every row of the merged table has one cell per merged header, the cell
\* is "" in every column its source row supplies no value for, also when the
\* source row is shorter or longer than the header list, and the merge of any
\* loaded tables yields a table of that shape.
C7_MergedShape ==
  /\ \A r \in 1..Len(mergedRows) : Len(mergedRows[r]) = Len(mergedHeaders)
  /\ step # "upload" =>
       /\ Len(mergedRows) = Len(sourceRows)
       /\ \A k \in 1..Len(files) : \A r \in 1..Len(files[k].rows) :
            \A c \in 1..Len(mergedHeaders) :
              ~supplies(k, r, c) => mergedRows[rowsBefore(k) + r][c] = ""
  /\ files # <<>> =>
       LET rows == mergeRows(files)
       IN  /\ Len(rows) = Len(sourceRows)
           /\ \A r \in 1..Len(rows) : Len(rows[r]) = Len(standardCols(files))

\* a merge of a table with a row longer than its header list and a shorter one
C7_Witness ==
  /\ step = "preview"
  /\ \E k \in 1..Len(files) :
       /\ \E r \in 1..Len(files[k].rows) : Len(files[k].rows[r]) > Len(files[k].headers)
       /\ \E r \in 1..Len(files[k].rows) : Len(files[k].rows[r]) < Len(files[k].headers)

\* the distinct raw header strings of the loaded tables
rawHeaders == UNION {Range(files[k].headers) : k \in 1..Len(files)}

\* C8: after a merge outputColumns is the number of merged headers, sourceColumns
\* the number of distinct raw header strings of the loaded tables, outputColumns
\* is at most sourceColumns, and at least 1 when some table has a header.
C8_ColumnConservation ==
  step # "upload" =>
    /\ stats.outputColumns = Len(mergedHeaders)
    /\ stats.sourceColumns = Cardinality(rawHeaders)
    /\ stats.outputColumns <= stats.sourceColumns
    /\ rawHeaders # {} => stats.outputColumns >= 1

\* a merge that folds several raw headers into fewer columns
C8_Witness ==
  /\ step = "preview"
  /\ stats.outputColumns >= 1
  /\ stats.outputColumns < stats.sourceColumns

\* C9: after a merge, every raw header whose trimmed, lower-cased form is an
\* alias of a canonical name is mapped to exactly that name: the name is a
\* merged header, once, and columnMappings lists the header among its sources.
C9_SynonymResolution ==
  step # "upload" =>
    \A h \in rawHeaders :
      canonicalOf(h) # "" =>
        /\ Cardinality({c \in 1..Len(mergedHeaders) : mergedHeaders[c] = canonicalOf(h)}) = 1
        /\ \A m \in 1..Len(stats.columnMappings) :
             h \in Range(stats.columnMappings[m].sources)
               <=> stats.columnMappings[m].target = canonicalOf(h)

\* a merge of two raw headers that differ in more than letter case and stand
\* for the same canonical name, one of them not in lower case
C9_Witness ==
  /\ step = "preview"
  /\ \E g \in rawHeaders : \E h \in rawHeaders :
       /\ toLowerCase(g) # toLowerCase(h)
       /\ h # toLowerCase(h)
       /\ canonicalOf(g) # ""
       /\ canonicalOf(g) = canonicalOf(h)

(***************************************************************************)
(* Properties of the session (Spec).                                       *)
(***************************************************************************)
\* C10: a reset leaves the step upload, the files, the merged and the
\* rationalized headers and rows empty, the stats as they are initially and the
\* phase idle.
C10_ResetClears ==
  [][reset =>
       /\ step' = "upload"
       /\ files' = <<>>
       /\ mergedHeaders' = <<>> /\ mergedRows' = <<>>
       /\ rationHeaders' = <<>> /\ rationRows' = <<>>
       /\ stats' = emptyStats
       /\ phase' = "idle"]_vars

\* the state after a reset taken while a later rationalize call is pending
C10_Witness ==
  /\ step = "upload"
  /\ phase = "idle"
  /\ files = <<>>
  /\ stats = emptyStats
  /\ timers # <<>>

\* C11: the step leaves upload only with at least one loaded table, for preview,
\* and in every state whose step is preview, rationalize or export the merged
\* table was computed from at least one table (stats.totalFiles >= 1).
C11_MergeNeedsFiles ==
  /\ [](step # "upload" => stats.totalFiles >= 1)
  /\ [][(step = "upload" /\ step' # "upload") =>
          (Len(files) >= 1 /\ step' = "preview" /\ stats'.totalFiles = Len(files))]_vars

\* the upload step with no loaded table after an earlier merge: every table was
\* removed again
C11_Witness ==
  /\ step = "upload"
  /\ files = <<>>
  /\ stats.totalFiles >= 1

\* C12: at most one rationalization is in flight: no rationalize call is made
\* while the four timers of an earlier call have not all fired.
C12_OneRunInFlight == Len(timers) <= 1

\* C13: the rationalization counters of stats are all 0, or they are the
\* counters computed from the merged table that totalSourceRows, sourceColumns
\* and outputColumns describe.
C13_StatsWhole ==
  \/ /\ stats.duplicatesRemoved = 0
     /\ stats.abbreviationsFixed = 0
     /\ stats.casingFixed = 0
     /\ stats.whitespaceFixed = 0
     /\ stats.outputRows = 0
  \/ LET res == rationalizeRows(mergedRows)
     IN  /\ stats.totalSourceRows = Len(mergedRows)
         /\ stats.outputColumns = Len(mergedHeaders)
         /\ ~res.threw
         /\ stats.duplicatesRemoved = res.duplicatesRemoved
         /\ stats.abbreviationsFixed = res.abbreviationsFixed
         /\ stats.casingFixed = res.casingFixed
         /\ stats.whitespaceFixed = res.whitespaceFixed
         /\ stats.outputRows = Len(res.rows)

(***************************************************************************)
(* Properties of the intake (IntakeSpec).                                  *)
(***************************************************************************)
\* the file adds a table: its extension is handled and reading it does not throw
readable(f) == (isCSV(f.name) \/ isExcel(f.name)) /\ ~f.fails

\* the tables a list is to add: for each readable file, in the order of the
\* list, the table the file gives when it is loaded alone
tablesOf(list) ==
  Flatten([k \in 1..Len(list) |->
             IF readable(list[k]) THEN parseBatch(<<list[k]>>) ELSE <<>>])

\* C14: an ingestion changes neither the step nor a derived table; when a call
\* of ingestFiles ends, the tables of the readable files of its list are
\* appended, in the order of the list, after the tables loaded by then, and the
\* files that throw or have an unsupported extension add nothing.
C14_IngestIsolation ==
  [][reading' # reading =>
       /\ UNCHANGED <<step, mergedHeaders, mergedRows, rationHeaders, rationRows,
                      phase, stats, timers>>
       /\ \/ /\ files' = files
             /\ Len(reading') = Len(reading) + 1
          \/ \E k \in 1..Len(reading) :
               /\ reading' = RemoveAt(reading, k)
               /\ files' = files \o tablesOf(reading[k].list)]_vars

\* a call of ingestFiles has ended in the preview step, after the merge of the
\* one table loaded before, while a list that holds a file that throws is being
\* read
C14_Witness ==
  /\ step = "preview"
  /\ stats.totalFiles = 1
  /\ Len(files) = 2
  /\ files[1].fileName # files[2].fileName
  /\ \E k \in 1..Len(reading) : \E j \in 1..Len(reading[k].list) : reading[k].list[j].fails

\* files is the list prev followed by further tables
extends(prev, next) ==
  /\ Len(prev) <= Len(next)
  /\ SubSeq(next, 1, Len(prev)) = prev

\* C19, as stated: every step other than a reset leaves the loaded tables in
\* place, in their order, as a prefix of the new list of loaded tables.
C19_AppendOnly == [][reset \/ extends(files, files')]_vars

\* C19, amended: every step other than a reset either leaves the loaded tables
\* as a prefix of the new list or, in the upload step, removes exactly one of
\* them and keeps the others in their order.
C19_AppendOrRemoveOne ==
  [][\/ reset
     \/ extends(files, files')
     \/ /\ step = "upload"
        /\ step' = "upload"
        /\ \E i \in 1..Len(files) : files' = RemoveAt(files, i)]_vars

\* the upload step after a merge of two tables, the first of them removed and
\* the second still loaded
C19_Witness ==
  /\ step = "upload"
  /\ stats.totalFiles = 2
  /\ Len(files) = 1
  /\ stats.columnMappings # <<>>
  /\ files[1].headers # <<stats.columnMappings[1].sources[1]>>

(***************************************************************************)
(* Properties of the navigation (Spec).                                    *)
(***************************************************************************)
\* the index of a step in STEPS
indexOfStep(s) == CHOOSE i \in 1..Len(STEPS) : STEPS[i] = s

\* C15: the step index grows only by one and only by a merge, a call of
\* rationalize or the Export button, never by the stepper; the step to export
\* is taken only in phase done, and whenever the phase is done the rationalized
\* rows and outputRows have been written together.
C15_ForwardGated ==
  /\ [](phase = "done" => stats.outputRows = Len(rationRows))
  /\ [][indexOfStep(step') > indexOfStep(step) =>
          /\ indexOfStep(step') = indexOfStep(step) + 1
          /\ mergeAndPreview \/ rationalize \/ toExport
          /\ step' = "export" => phase = "done"]_vars

\* the export step, reached with results
C15_Witness ==
  /\ step = "export"
  /\ phase = "done"
  /\ rationRows # <<>>

(***************************************************************************)
(* Further properties of the merge (MergeSpec).                            *)
(***************************************************************************)
\* the raw headers of the loaded tables, table by table and left to right
headerScan == Flatten([k \in 1..Len(files) |-> files[k].headers])

\* what a raw header resolves to: its canonical name, or the passthrough name
\* the merge derives for it
resolved(h) ==
  IF canonicalOf(h) # "" THEN canonicalOf(h) ELSE passthrough(trim(toLowerCase(h)))

\* the first position of headerScan that resolves to col, 0 when none does
firstSeen(col) ==
  LET at == {i \in 1..Len(headerScan) : resolved(headerScan[i]) = col}
  IN  IF at = {} THEN 0 ELSE CHOOSE i \in at : \A j \in at : i <= j

\* C16: after a merge no column is twice in the merged headers, every merged
\* header is what some raw header resolves to, and the columns are in the order
\* in which the scan of the loaded tables first meets them.
C16_FirstSeenOrder ==
  step # "upload" =>
    /\ \A c \in 1..Len(mergedHeaders) : firstSeen(mergedHeaders[c]) > 0
    /\ \A c \in 1..Len(mergedHeaders) : \A d \in 1..Len(mergedHeaders) :
         c < d <=> firstSeen(mergedHeaders[c]) < firstSeen(mergedHeaders[d])

\* a merge in which a passthrough column is met before a column of the
\* registry, and a column is met in both tables
C16_Witness ==
  /\ step = "preview"
  /\ Len(files) = 2
  /\ \E c \in 1..Len(mergedHeaders) : \E d \in 1..Len(mergedHeaders) :
       /\ c < d
       /\ canonicalOf(mergedHeaders[c]) = ""
       /\ canonicalOf(mergedHeaders[d]) # ""
  /\ \E i \in 1..Len(files[1].headers) : \E j \in 1..Len(files[2].headers) :
       resolved(files[1].headers[i]) = resolved(files[2].headers[j])

\* the index of col in the merged headers, 0 when it is not one of them
mergedIndex(col) ==
  IF \E c \in 1..Len(mergedHeaders) : mergedHeaders[c] = col
    THEN CHOOSE c \in 1..Len(mergedHeaders) : mergedHeaders[c] = col
    ELSE 0

\* C17: after a merge, for every header position i of every loaded table, the
\* column the header resolves to is a merged header, and the cell i of every
\* row of the table is in the merged row at the index of that column, unless a
\* later cell of the row goes to the same column.
C17_NoColumnLost ==
  step # "upload" =>
    \A k \in 1..Len(files) : \A i \in 1..Len(files[k].headers) :
      LET col == resolved(files[k].headers[i])
      IN  /\ mergedIndex(col) > 0
          /\ \A r \in 1..Len(files[k].rows) :
               LET row == files[k].rows[r]
               IN  ( /\ i <= Len(row)
                     /\ ~\E j \in (i + 1)..Len(row) :
                          j <= Len(files[k].headers)
                            /\ resolved(files[k].headers[j]) = col )
                   => mergedRows[rowsBefore(k) + r][mergedIndex(col)] = row[i]

\* C18: a merge leaves a merged table with one row per row of the loaded
\* tables, as many as stats.totalSourceRows says, and the row of the r-th row of
\* the k-th table comes after the rows of the tables before it and of the rows
\* before it: it holds the cells of that row.
C18_StableConcatenation ==
  [][(step = "upload" /\ step' = "preview") =>
       /\ Len(mergedRows') = Sum([k \in 1..Len(files) |-> Len(files[k].rows)])
       /\ stats'.totalSourceRows = Len(mergedRows')
       /\ \A k \in 1..Len(files) : \A r \in 1..Len(files[k].rows) :
            mergedRows'[rowsBefore(k) + r]
              = mergeRow(mergedHeaders', headerMap(mergedHeaders', files[k]),
                         files[k].rows[r])]_vars

\* a merge of two tables with different rows, the first with more than one row
C18_Witness ==
  /\ step = "preview"
  /\ Len(files) = 2
  /\ Len(files[1].rows) = 2
  /\ Len(mergedRows) = 3
  /\ mergedRows[1] # mergedRows[2]
  /\ mergedRows[2] # mergedRows[3]

(***************************************************************************)
(* The passthrough names (MergeSpec).                                      *)
(***************************************************************************)
\* the tokens of key between runs of whitespace, each with its first letter
\* in upper case, joined with single spaces
tokensCapitalized(key) ==
  LET ws == SelectSeq(split(collapseSpaces(key), " "), LAMBDA w : w # "")
  IN  join([k \in 1..Len(ws) |-> upperChar(charAt(ws[k], 1)) \o slice(ws[k], 1)], " ")

\* C20: after a merge every raw header whose trimmed, lower-cased form is no
\* alias of the registry is listed in columnMappings under the name made of
\* the whitespace-separated tokens of that form, capitalized and joined with
\* single spaces.
C20_PassthroughTokens ==
  step # "upload" =>
    \A h \in rawHeaders :
      canonicalOf(h) = "" =>
        \E m \in 1..Len(stats.columnMappings) :
          /\ stats.columnMappings[m].target = tokensCapitalized(trim(toLowerCase(h)))
          /\ h \in Range(stats.columnMappings[m].sources)

(***************************************************************************)
(* Properties of the cell normalization (PipelineSpec).                    *)
(***************************************************************************)
\* the keys of the value-abbreviation dictionary and their expansions
AbbreviationKeys ==
  [k \in {"ea", "ea.", "EA"} |-> "Each"]
    @@ [k \in {"pcs", "pcs.", "PCS", "pc"} |-> "Pieces"]
    @@ [k \in {"nos", "nos."} |-> "Numbers"]

\* the cells of the merged table
mergedCells == UNION {Range(mergedRows[r]) : r \in 1..Len(mergedRows)}

\* C21: a cell of the merged table, trimmed and with its inner whitespace
\* collapsed, is replaced by an expansion and counted as one abbreviation fix
\* exactly when it is a key of the dictionary; every other cell stays a string,
\* is not counted and goes on to the casing rule as it is.
C21_AbbreviationKeysOnly ==
  \A cell \in mergedCells :
    LET w == collapseSpaces(trim(cell))
        n == normalizeCell(cell)
    IN  /\ n.isString
        /\ n.abbr = 1 <=> w \in DOMAIN AbbreviationKeys
        /\ w \in DOMAIN AbbreviationKeys => n.c = AbbreviationKeys[w]
        /\ w \notin DOMAIN AbbreviationKeys =>
             n.c = IF needsCasing(w) THEN titleCase(w) ELSE w

\* the cell after the abbreviation substitution, for a cell that stays a string
substituted(cell) ==
  LET w == collapseSpaces(trim(cell))
  IN  IF w \in DOMAIN AbbreviationKeys THEN AbbreviationKeys[w] ELSE w

\* s in title case: a letter is in upper case when it is the first character or
\* follows a space, in lower case otherwise
RECURSIVE titledFrom(_, _)
titledFrom(s, i) ==
  IF i > Len(s) THEN ""
  ELSE (IF i = 1 \/ charAt(s, i - 1) = " "
          THEN upperChar(charAt(s, i)) ELSE lowerChar(charAt(s, i)))
       \o titledFrom(s, i + 1)

\* no letter of s is in lower case, or none is in upper case
oneCase(s) ==
  \/ \A i \in 1..Len(s) : charAt(s, i) \notin LowerChars
  \/ \A i \in 1..Len(s) : charAt(s, i) \notin UpperChars

\* what the casing rule is to make of the substituted cell p
cased(p) == IF Len(p) > 3 /\ oneCase(p) THEN titledFrom(p, 1) ELSE p

\* C22: a cell that is still a string after the abbreviation substitution is
\* put in title case exactly when it is longer than 3 and all in one case, and
\* is counted as a casing fix exactly when that changes it; any other cell is
\* left as it is and not counted; casingFixed of a finished run is the number
\* of such changes in the merged table.
C22_CasingRule ==
  /\ \A cell \in mergedCells :
       LET n == normalizeCell(cell)
           p == substituted(cell)
       IN  IF n.isString
             THEN n.c = cased(p) /\ (n.casing = 1 <=> cased(p) # p)
             ELSE n.casing = 0
  /\ phase = "done" =>
       stats.casingFixed =
         Sum([r \in 1..Len(mergedRows) |->
                Sum([j \in 1..Len(mergedRows[r]) |->
                       IF cased(substituted(mergedRows[r][j])) # substituted(mergedRows[r][j])
                         THEN 1 ELSE 0])])

\* a finished run on a table with a cell of three characters in lower case,
\* left as it is, and a longer cell in upper case, counted
C22_Witness ==
  /\ phase = "done"
  /\ stats.casingFixed = 1
  /\ \E r \in 1..Len(mergedRows) : mergedRows[r][1] = "a \t b"
  /\ \E r \in 1..Len(rationRows) : rationRows[r][1] = "a b"
  /\ \E r \in 1..Len(rationRows) : rationRows[r][1] = "Each"

(***************************************************************************)
(* Further properties of the rationalization (PipelineSpec).               *)
(***************************************************************************)
\* the key of a row: its cells in lower case, joined with "|"
keyOf(row) == join([j \in 1..Len(row) |-> toLowerCase(row[j])], "|")

\* the indices of the rows that are the earliest of their key
earliest(rows) == {i \in 1..Len(rows) : \A j \in 1..(i - 1) : keyOf(rows[j]) # keyOf(rows[i])}

\* C23: the rationalized rows of a finished run are, in their order, the rows
\* of the normalized merged table that are the earliest of their key and not
\* all empty, and duplicatesRemoved counts each later row of a key once (and
\* each earliest row that is all empty).
C23_KeepsFirst ==
  phase = "done" =>
    LET n == normalizedRows(mergedRows)
    IN  /\ rationRows = SelectIdx(n, LAMBDA i : i \in earliest(n) /\ ~AllEmpty(n[i]))
        /\ stats.duplicatesRemoved =
             (Len(n) - Cardinality(earliest(n)))
               + Cardinality({i \in earliest(n) : AllEmpty(n[i])})

\* a finished run on two rows of one key that differ in letter case: the first
\* is kept, one row is counted
C23_Witness ==
  /\ phase = "done"
  /\ Len(mergedRows) = 2
  /\ keyOf(normalizedRows(mergedRows)[1]) = keyOf(normalizedRows(mergedRows)[2])
  /\ normalizedRows(mergedRows)[1] # normalizedRows(mergedRows)[2]
  /\ rationRows = <<normalizedRows(mergedRows)[1]>>
  /\ stats.duplicatesRemoved = 1

(***************************************************************************)
(* Properties of the phases and of overlapping runs (Spec).                *)
(***************************************************************************)
\* the phases of a run in their order
PHASES == <<"analyzing", "mapping", "deduplicating", "normalizing", "done">>

\* phase q is the one that follows phase p
follows(p, q) == \E i \in 1..(Len(PHASES) - 1) : PHASES[i] = p /\ PHASES[i + 1] = q

\* C24: the phase changes only by a call of rationalize, which sets analyzing,
\* by a reset, or to the phase that follows it in the order analyzing, mapping,
\* deduplicating, normalizing, done; it becomes done in the step that writes
\* the rationalized rows and the counters.
C24_PhaseOrder ==
  [][phase' # phase =>
       \/ rationalize
       \/ reset
       \/ /\ follows(phase, phase')
          /\ phase' = "done" => stats'.outputRows = Len(rationRows')]_vars

(***************************************************************************)
(* Completion of a run (PipelineSpec).                                     *)
(***************************************************************************)
\* C25: once every timer set by a call of rationalize has fired, the phase is
\* done and the rationalized rows and the counters of the run are written.
C25_RunCompletes ==
  (step = "rationalize" /\ timers = <<>>) =>
    /\ phase = "done"
    /\ rationRows = rationalizeRows(mergedRows).rows
    /\ stats.outputRows = Len(rationRows)

(***************************************************************************)
(* Further properties of the navigation (Spec).                            *)
(***************************************************************************)
\* C26, as stated: the step becomes upload only from preview, or by a reset in
\* the export step.
C26_UploadFromPreviewOrReset ==
  [][(step # "upload" /\ step' = "upload") => (step = "preview" \/ reset)]_vars

\* C26, amended: the step becomes upload only by a reset in the export step or
\* by a navigation from preview, rationalize or export that leaves the files,
\* the merged and rationalized tables, the stats and the phase as they are.
C26_UploadByNavigationOrReset ==
  [][(step # "upload" /\ step' = "upload") =>
       \/ reset
       \/ UNCHANGED <<files, mergedHeaders, mergedRows, rationHeaders, rationRows,
                      phase, stats, reading, timers>>]_vars

\* the upload step with the results of a finished run still in place
C26_Witness ==
  /\ step = "upload"
  /\ phase = "done"
  /\ files # <<>>
  /\ mergedRows # <<>>
  /\ rationRows # <<>>

\* C27: in the rationalize step with phase done, and in the export step, the
\* rationalized headers are the merged headers and the rationalized rows are
\* the rationalization of the merged rows.
C27_ResultsCurrent ==
  ((step = "rationalize" /\ phase = "done") \/ step = "export") =>
    /\ rationHeaders = mergedHeaders
    /\ rationRows = rationalizeRows(mergedRows).rows

\* C28: while the phase is idle the rationalized table is empty and the
\* counters are 0, and they stay so, with the phase idle, in every step but a
\* call of rationalize: no timer set before a reset writes anything after it.
C28_ResetIsFinal ==
  [][phase = "idle" =>
       \/ rationalize
       \/ /\ phase' = "idle"
          /\ rationHeaders' = <<>> /\ rationRows' = <<>>
          /\ stats'.duplicatesRemoved = 0 /\ stats'.abbreviationsFixed = 0
          /\ stats'.casingFixed = 0 /\ stats'.whitespaceFixed = 0
          /\ stats'.outputRows = 0]_vars

\* C29: in the export step the phase is done.
C29_ExportPhaseDone == step = "export" => phase = "done"

\* C30: in the preview step stats.totalFiles is the number of loaded source
\* tables and the merged table has as many rows as the loaded tables
\* together, also when an ingestion started in upload ends after the merge.
C30_PreviewMatchesFiles ==
  step = "preview" =>
    /\ stats.totalFiles = Len(files)
    /\ Len(mergedRows) = Len(sourceRows)

====
